---- MODULE Spec2Model ----
(***************************************************************************)
(* A model of src/graph.js: the Graph container (addNode, getNode,         *)
(* connectNodes), the force-directed layout step (init, simulate) and the  *)
(* frame loop of display.                                                  *)
(*                                                                         *)
(* Numbers.  JavaScript numbers are modelled in fixed point: the integer n *)
(* stands for the number n / Scale.  Products and quotients truncate       *)
(* toward zero.  NaN is a distinguished value no arithmetic accepts.       *)
(***************************************************************************)
EXTENDS Integers, Sequences, FiniteSets, TLC

(* ------------------------------ bounds --------------------------------- *)

\* Node instances the caller may create per label (new Node(label)).
MaxInst == 2

\* Calls of the construction interface in one run.
MaxOps == 4

\* Direct calls of init / simulate in one run.
MaxCalls == 3

\* Animation frames delivered to the loop display starts.
MaxFrames == 2

(* --------------------------- fixed point ------------------------------- *)

Scale == 10 * 10

NaN == "NaN"

Abs(a) == IF a < 0 THEN -a ELSE a

\* Integer quotient truncated toward zero, b # 0.
TDiv(a, b) ==
    IF a >= 0
    THEN (IF b > 0 THEN a \div b ELSE -(a \div (-b)))
    ELSE (IF b > 0 THEN -((-a) \div b) ELSE (-a) \div (-b))

\* a * b of two fixed-point numbers (the high and the low part of a are
\* multiplied apart, so that the intermediate product stays in range).
MulF(a, b) ==
    TDiv(a, Scale) * b + TDiv((a - TDiv(a, Scale) * Scale) * b, Scale)

\* a / b of two fixed-point numbers; x / 0 is not a number.
DivF(a, b) ==
    IF b = 0 THEN NaN
    ELSE IF Abs(a) < 20000000 THEN TDiv(a * Scale, b)
    ELSE TDiv(a, TDiv(b, Scale))

RECURSIVE IsqrtIter(_, _, _)
\* The largest r with lo <= r < hi and r * r <= n.
IsqrtIter(n, lo, hi) ==
    IF hi - lo <= 1 THEN lo
    ELSE LET mid == (lo + hi) \div 2
         IN  IF mid * mid <= n THEN IsqrtIter(n, mid, hi)
             ELSE IsqrtIter(n, lo, mid)

Isqrt(n) == IsqrtIter(n, 0, 46341)

RECURSIVE Hypot(_, _)
\* Math.hypot(x, y): sqrt(x*x + y*y), scaled down first when the squares
\* would leave the integer range.
Hypot(x, y) ==
    IF Abs(x) <= 30000 /\ Abs(y) <= 30000
    THEN Isqrt(x * x + y * y)
    ELSE 10 * Hypot(TDiv(x, 10), TDiv(y, 10))

\* ln 2 in fixed point.
Ln2 == (69 * Scale) \div 100

\* 2 atanh(z), to the third order.
Atanh2(z) == 2 * (z + TDiv(MulF(MulF(z, z), z), 3))

RECURSIVE Log(_)
\* Math.log(x) for x > 0: ln(x) = k ln 2 + ln(m), x = m * 2^k, 1 <= m < 2,
\* with ln(m) = 2 atanh((m - 1)/(m + 1)).
Log(x) ==
    IF x >= 2 * Scale THEN Ln2 + Log(x \div 2)
    ELSE IF x < Scale THEN Log(2 * x) - Ln2
    ELSE Atanh2(DivF(x - Scale, x + Scale))

(* ------------------------------ Vector --------------------------------- *)

Vector(x, y) == [x |-> x, y |-> y]

add(a, b) == Vector(a.x + b.x, a.y + b.y)

sub(a, b) == Vector(a.x - b.x, a.y - b.y)

mul(a, b) == Vector(MulF(a.x, b.x), MulF(a.y, b.y))

addS(v, s) == Vector(v.x + s, v.y + s)

mulS(v, s) == Vector(MulF(v.x, s), MulF(v.y, s))

divS(v, s) == Vector(DivF(v.x, s), DivF(v.y, s))

mag(v) == Hypot(v.x, v.y)

norm(v) == divS(v, mag(v))

\* Vector.rand(): the vectors new Vector(Math.random(), Math.random()) is
\* taken to return, (0, 0), (0.5, 0) and (0, 0.5).
rand == {Vector(0, 0), Vector(Scale \div 2, 0), Vector(0, Scale \div 2)}

Zero == Vector(0, 0)

(* --------------------------- Node and Edge ----------------------------- *)

\* The labels of the model, in a fixed order.
Labels == <<"A", "B", "C">>

\* The labels the construction interface is called with.
BuildLabels == {"A", "B"}

\* The Node objects of a run, each named by a reference: MaxInst objects
\* per label, made by new Node(label).
Instances == 1 .. (Len(Labels) * MaxInst)

\* labelOf(node)
labelOf(node) == Labels[((node - 1) \div MaxInst) + 1]

\* The i-th Node object made with label l.
Inst(l, i) ==
    (CHOOSE k \in DOMAIN Labels : Labels[k] = l) * MaxInst - MaxInst + i

\* An argument of addNode that is not an instance of Node.
NotANode == 0

\* What Map.get and Array.find return when there is nothing to return.
undefined == -1

\* new Edge(start, end, is_directed); ref is the identity of the object.
Edge(start, end, is_directed, ref) ==
    [start |-> start, end |-> end, is_directed |-> is_directed, ref |-> ref]

Range(s) == {s[i] : i \in DOMAIN s}

(* ------------------------------- state --------------------------------- *)

VARIABLES
    nodes,      \* Graph.nodes: the Map, as its values in key insertion order
    edges,      \* Graph.edges: the Array of Edge objects
    edgeRefs,   \* the number of Edge objects constructed so far
    peers,      \* peers[n]: Node.peers of instance n
    replaced,   \* the instances a later addNode removed from the Map
    result,     \* the last call and how it ended
    ops,        \* construction calls made
    pos,        \* pos[n]: Node.pos of instance n
    vel,        \* vel[n]: Node.vel
    acel,       \* acel[n]: Node.acel
    canvas,     \* what graphDrawer.getWidth() / getHeight() return
    trace,      \* the last init / simulate call: its arguments and what
                \* each phase of it computed
    calls,      \* direct init / simulate calls made
    log,        \* the calls display and its frame callback made, in order
    pending,    \* a requestAnimationFrame callback is registered
    prev,       \* the argument of step: the time of the previous frame
    frames      \* frames delivered

gvars == <<nodes, edges, edgeRefs, peers, replaced, result, ops>>

kvars == <<pos, vel, acel, canvas, trace, calls>>

dvars == <<log, pending, prev, frames>>

vars == <<gvars, kvars, dvars>>

(* ------------------------- Graph construction -------------------------- *)

\* Map.prototype.get
mapGet(m, key) ==
    IF \E i \in DOMAIN m : labelOf(m[i]) = key
    THEN m[CHOOSE i \in DOMAIN m : labelOf(m[i]) = key]
    ELSE undefined

\* Map.prototype.set: a key already present keeps its place.
mapSet(m, key, value) ==
    IF \E i \in DOMAIN m : labelOf(m[i]) = key
    THEN [m EXCEPT ![CHOOSE i \in DOMAIN m : labelOf(m[i]) = key] = value]
    ELSE Append(m, value)

\* Graph.addNode(node) on the graph g: the graph after the call and how the
\* call ended.  A node the call removes from the Map is noted in replaced.
addNode(g, node) ==
    IF node \notin Instances
    THEN [g EXCEPT !.status = "InvalidArgument"]
    ELSE LET old == mapGet(g.nodes, labelOf(node))
         IN  [g EXCEPT !.status = "ok",
                       !.nodes = mapSet(@, labelOf(node), node),
                       !.replaced = IF old # undefined /\ old # node
                                    THEN @ \cup {old} ELSE @]

\* getNode as it would be without its check of what Map.get returned.
getNode_unchecked(m, label) == [status |-> "ok", node |-> mapGet(m, label)]

\* Graph.getNode(label): the node, or the error thrown.
getNode(m, label) ==
    LET node == mapGet(m, label)
    IN  IF node = undefined
        THEN [status |-> "NotFound", node |-> undefined]
        ELSE [status |-> "ok", node |-> node]

\* Node.addPeer(node) on instance n.
addPeer(p, n, node) == [p EXCEPT ![n] = Append(@, node)]

\* Array.prototype.find(e => e === new_edge): strict equality of objects.
\* The reference of the element found, or undefined.
find(es, new_edge) ==
    IF \E i \in DOMAIN es : es[i].ref = new_edge.ref
    THEN es[CHOOSE i \in DOMAIN es : es[i].ref = new_edge.ref].ref
    ELSE undefined

\* connectNodes from new Edge(...) on, node_a and node_b being resolved.
link(g, node_a, node_b, is_directed, new_edge) ==
    IF find(g.edges, new_edge) # undefined
    THEN [g EXCEPT !.edgeRefs = @ + 1, !.status = "ok"]
    ELSE [g EXCEPT !.edgeRefs = @ + 1, !.status = "ok",
                   !.edges = Append(@, new_edge),
                   !.peers = IF ~is_directed
                             THEN addPeer(addPeer(@, node_a, node_b),
                                          node_b, node_a)
                             ELSE addPeer(@, node_a, node_b)]

\* connectNodes as it would be if the peers were linked both ways whatever
\* is_directed says.
connectNodes_symmetric(g, node_a_label, node_b_label, is_directed) ==
    IF getNode(g.nodes, node_a_label).status # "ok"
       \/ getNode(g.nodes, node_b_label).status # "ok"
    THEN [g EXCEPT !.status = "NotFound"]
    ELSE [link(g, getNode(g.nodes, node_a_label).node,
               getNode(g.nodes, node_b_label).node, FALSE,
               Edge(getNode(g.nodes, node_a_label).node,
                    getNode(g.nodes, node_b_label).node, FALSE,
                    g.edgeRefs + 1))
          EXCEPT !.edges = [i \in DOMAIN @ |->
                              IF @[i].ref = g.edgeRefs + 1
                              THEN [@[i] EXCEPT !.is_directed = is_directed]
                              ELSE @[i]]]

\* connectNodes as it would be if a missing node_b_label were made a node
\* of the graph instead of being reported.
connectNodes_creating(g, node_a_label, node_b_label, is_directed) ==
    IF getNode(g.nodes, node_a_label).status # "ok"
    THEN [g EXCEPT !.status = "NotFound"]
    ELSE IF getNode(g.nodes, node_b_label).status # "ok"
    THEN [g EXCEPT !.status = "ok",
                   !.nodes = mapSet(@, node_b_label, Inst(node_b_label, 1))]
    ELSE link(g, getNode(g.nodes, node_a_label).node,
              getNode(g.nodes, node_b_label).node, is_directed,
              Edge(getNode(g.nodes, node_a_label).node,
                   getNode(g.nodes, node_b_label).node, is_directed,
                   g.edgeRefs + 1))

\* Graph.connectNodes(node_a_label, node_b_label, is_directed) on the graph
\* g: the graph after the call and how the call ended.
connectNodes(g, node_a_label, node_b_label, is_directed) ==
    LET a == getNode(g.nodes, node_a_label)
        b == getNode(g.nodes, node_b_label)
    IN  IF a.status # "ok" THEN [g EXCEPT !.status = a.status]
        ELSE IF b.status # "ok" THEN [g EXCEPT !.status = b.status]
        ELSE link(g, a.node, b.node, is_directed,
                  Edge(a.node, b.node, is_directed, g.edgeRefs + 1))

\* The Graph object and the peers of the Node objects, as one value.
Graph ==
    [nodes |-> nodes, edges |-> edges, edgeRefs |-> edgeRefs, peers |-> peers,
     replaced |-> replaced, status |-> "ok"]

\* new Graph(), and every Node as its constructor leaves it.
EmptyGraph ==
    [nodes |-> << >>, edges |-> << >>, edgeRefs |-> 0,
     peers |-> [n \in Instances |-> << >>], replaced |-> {}, status |-> "ok"]

(* ------------------------- layout simulation --------------------------- *)

\* The tunable parameters the Graph constructor sets.
spring_constant == 100 * Scale

spring_length == 30 * Scale

repulsive_constant == 100000 * Scale

max_repulsive_force == 10000 * Scale

\* Graph.init(graphDrawer): r[n] is what Vector.rand() returns for node n.
init(p, m, r, W, H) ==
    [n \in Instances |->
        IF n \in Range(m)
        THEN mul(addS(mulS(r[n], Scale \div 10), (Scale - Scale \div 10) \div 2),
                 Vector(W, H))
        ELSE p[n]]

\* simulate, first loop: the acceleration of every node of the Map is zeroed.
resetLoop(a, m) == [n \in Instances |-> IF n \in Range(m) THEN Zero ELSE a[n]]

\* The factor of dir in the edge loop.
springForce(dist) ==
    MulF(spring_constant, Log(dist - (spring_length - Scale)))

\* The edge loop as it would be with the signs of its two assignments
\* exchanged.
pull_swapped(a, n, q, force) ==
    [[a EXCEPT ![n] = add(@, force)] EXCEPT ![q] = sub(@, force)]

\* The two assignments of the edge loop, force being mulS(dir, ...).
pull(a, n, q, force) ==
    [[a EXCEPT ![n] = sub(@, force)] EXCEPT ![q] = add(@, force)]

\* The body of the edge loop for an edge from n to q, dist_vec being
\* Vector.sub(n.pos, p.pos).
edgeBody(a, n, q, dist_vec) ==
    IF mag(dist_vec) > spring_length
    THEN pull(a, n, q, mulS(norm(dist_vec), springForce(mag(dist_vec))))
    ELSE a

RECURSIVE edgeLoop(_, _, _, _)
\* simulate, second loop: for (const edge of this.edges), from index i.
\* as holds every acel before the loop and after each iteration made.
edgeLoop(as, p, es, i) ==
    IF i > Len(es) THEN as
    ELSE edgeLoop(Append(as, edgeBody(as[Len(as)], es[i].start, es[i].end,
                                      sub(p[es[i].start], p[es[i].end]))),
                  p, es, i + 1)

\* The inverse-square term subtracted from the subject's acel, dist_vec
\* being Vector.sub(p.pos, n.pos) and dist its magnitude.
repulsion(dist_vec, dist) ==
    mulS(norm(dist_vec), DivF(repulsive_constant, MulF(dist, dist)))

\* The pair loop as it would be without the cap.
clamp_none(force) == force

\* if (Vector.mag(force) > this.max_repulsive_force) ...
clamp(force) ==
    IF mag(force) > max_repulsive_force
    THEN mulS(norm(force), max_repulsive_force)
    ELSE force

\* What an iteration of the pair loop leaves: n.acel = force after the cap.
capped(force) ==
    [threw |-> FALSE, acel |-> clamp(force),
     clamped |-> mag(force) > max_repulsive_force]

\* The body of the inner pair loop as it would be if the force were the
\* repulsion of the other node alone, whatever n.acel held.
pairBody_overwriting(an, dist_vec) ==
    IF mag(dist_vec) # 0
    THEN capped(sub(Zero, repulsion(dist_vec, mag(dist_vec))))
    ELSE [threw |-> TRUE, acel |-> an, clamped |-> FALSE]

\* The body of the inner pair loop for a subject whose acel is an and
\* another node at dist_vec from it.  With dist = 0 the code evaluates
\* Vector.norm(force) while force is still undefined: Vector.mag reads
\* undefined.x, a TypeError.
pairBody(an, dist_vec) ==
    IF mag(dist_vec) # 0
    THEN capped(sub(an, repulsion(dist_vec, mag(dist_vec))))
    ELSE [threw |-> TRUE, acel |-> an, clamped |-> FALSE]

RECURSIVE pairLoop(_, _, _, _, _)
\* What pairLoop goes on with after the iteration whose outcome is b.
pairNext(r, b, p, m, n, j) ==
    IF b.threw THEN [r EXCEPT !.threw = TRUE]
    ELSE pairLoop([threw |-> FALSE, acel |-> b.acel,
                   steps |-> Append(r.steps, b.acel),
                   clamped |-> r.clamped \/ b.clamped],
                  p, m, n, j + 1)

\* for (const p of this.nodes.values()) for subject n, from index j.
\* r = [threw, acel, steps, clamped]: n.acel, its value after every
\* iteration made, and whether an iteration capped the force.
pairLoop(r, p, m, n, j) ==
    IF j > Len(m) THEN r
    ELSE IF m[j] = n THEN pairLoop(r, p, m, n, j + 1)
    ELSE pairNext(r, pairBody(r.acel, sub(p[m[j]], p[n])), p, m, n, j)

\* The centering term for a node at dist_vec from the centre.
pullToCentre(an, dist_vec, dist) ==
    IF dist # 0
    THEN add(an, mulS(norm(dist_vec), TDiv(MulF(dist, dist), 1000)))
    ELSE an

\* The centering force added to n.acel after the pair loop.
centering(an, pn, W, H) ==
    pullToCentre(an, sub(Vector(TDiv(W, 2), TDiv(H, 2)), pn),
                 mag(sub(Vector(TDiv(W, 2), TDiv(H, 2)), pn)))

RECURSIVE nodeLoop(_, _, _, _, _, _)
\* The record s with what the pair loop of n left: n.acel = an, and r.
noted(s, n, an, r) ==
    [s EXCEPT !.threw = r.threw,
              !.acel = [@ EXCEPT ![n] = an],
              !.inner = [@ EXCEPT ![n] = r.steps],
              !.clamped = [@ EXCEPT ![n] = r.clamped]]

\* What nodeLoop goes on with after the pair loop of n = m[i] ended as r.
nodeNext(s, r, p, m, i, W, H) ==
    IF r.threw
    THEN noted(s, m[i], r.acel, r)
    ELSE nodeLoop(noted(s, m[i], centering(r.acel, p[m[i]], W, H), r),
                  p, m, i + 1, W, H)

\* simulate, third loop: for (const n of this.nodes.values()), from index i.
\* s = [threw, pos, vel, acel, edgeSteps, inner, clamped]: every acel, and
\* per subject node what pairLoop recorded.
nodeLoop(s, p, m, i, W, H) ==
    IF i > Len(m) THEN s
    ELSE nodeNext(s,
                  pairLoop([threw |-> FALSE, acel |-> s.acel[m[i]],
                            steps |-> << >>, clamped |-> FALSE],
                           p, m, m[i], 1),
                  p, m, i, W, H)

\* The last loop as it would be with the velocity advanced before the
\* position.
integrate_velocity_first(s, k, m, dt) ==
    [s EXCEPT
       !.pos = [n \in Instances |->
                  IF n \in Range(m)
                  THEN add(k.pos[n],
                           mulS(add(k.vel[n], mulS(s.acel[n], dt)), dt))
                  ELSE k.pos[n]],
       !.vel = [n \in Instances |->
                  IF n \in Range(m)
                  THEN mulS(add(k.vel[n], mulS(s.acel[n], dt)),
                            (95 * Scale) \div 100)
                  ELSE k.vel[n]]]

\* simulate, last loop: position first, then velocity, then damping.
integrate(s, k, m, dt) ==
    [s EXCEPT
       !.pos = [n \in Instances |->
                  IF n \in Range(m) THEN add(k.pos[n], mulS(k.vel[n], dt))
                  ELSE k.pos[n]],
       !.vel = [n \in Instances |->
                  IF n \in Range(m)
                  THEN mulS(add(k.vel[n], mulS(s.acel[n], dt)),
                            (95 * Scale) \div 100)
                  ELSE k.vel[n]]]

\* The state the third loop starts from, as being what the edge loop
\* returned.
afterEdgeLoop(k, as) ==
    [threw |-> FALSE, pos |-> k.pos, vel |-> k.vel, acel |-> as[Len(as)],
     edgeSteps |-> as, inner |-> [n \in Instances |-> << >>],
     clamped |-> [n \in Instances |-> FALSE]]

\* The integration, which a TypeError out of the third loop never reaches.
lastLoop(s, k, m, dt) == IF s.threw THEN s ELSE integrate(s, k, m, dt)

\* Graph.simulate(graphDrawer, dt) on k = [pos, vel, acel]: the fields after
\* the call (as the TypeError leaves them when it is thrown) and what the
\* phases computed.
simulate(k, m, es, W, H, dt) ==
    lastLoop(nodeLoop(afterEdgeLoop(k, edgeLoop(<<resetLoop(k.acel, m)>>,
                                                 k.pos, es, 1)),
                      k.pos, m, 1, W, H),
             k, m, dt)

Kin == [pos |-> pos, vel |-> vel, acel |-> acel]

NoTrace == [op |-> "none"]

(* ----------------------------- frame loop ------------------------------ *)

\* The calls display makes before it returns, in order.
display == <<"init", "draw", "draw", "requestAnimationFrame">>

\* if (dt > 0.5) dt = 0
stall(dt) == IF dt > Scale \div 2 THEN 0 ELSE dt

\* The callback as it would be if it asked for the next frame first.
callback_requesting_first(r, dt) ==
    [dt |-> dt, sim |-> r,
     made |-> IF r.threw THEN <<"requestAnimationFrame", "simulate:TypeError">>
              ELSE <<"requestAnimationFrame", "simulate", "draw">>]

\* The calls the callback makes, in order, r being what simulate did.  A
\* TypeError out of simulate ends the callback.
callback(r, dt) ==
    [dt |-> dt, sim |-> r,
     made |-> IF r.threw THEN <<"simulate:TypeError">>
              ELSE <<"simulate", "draw", "requestAnimationFrame">>]

\* The requestAnimationFrame callback of step(prev), run at time t (ms).
step(k, m, es, W, H, t, prv) ==
    callback(simulate(k, m, es, W, H, stall(((t - prv) * Scale) \div 1000)),
             stall(((t - prv) * Scale) \div 1000))

(* ------------------------------ actions -------------------------------- *)

\* The drawing surfaces of the model: 80 x 60 and 800 x 600.
Sizes == {[w |-> 80 * Scale, h |-> 60 * Scale],
          [w |-> 800 * Scale, h |-> 600 * Scale]}

\* The time between two frames, in ms.
Deltas == {100, 600}

\* The time steps simulate is called with directly: 0 and 0.1.
DtVals == {0, Scale \div 10}

InitKin ==
    /\ pos = [n \in Instances |-> Zero]
    /\ vel = [n \in Instances |-> Zero]
    /\ acel = [n \in Instances |-> Zero]
    /\ trace = NoTrace
    /\ calls = 0

InitLoop ==
    /\ log = << >>
    /\ pending = FALSE
    /\ prev = 0
    /\ frames = 0

IsGraph(g) ==
    /\ nodes = g.nodes
    /\ edges = g.edges
    /\ edgeRefs = g.edgeRefs
    /\ peers = g.peers
    /\ replaced = g.replaced

Init ==
    /\ IsGraph(EmptyGraph)
    /\ result = [op |-> "new", status |-> "ok", args |-> << >>]
    /\ ops = 0
    /\ canvas = [w |-> 800 * Scale, h |-> 600 * Scale]
    /\ InitKin
    /\ InitLoop

AddNode(node) ==
    /\ ops < MaxOps
    /\ LET g == addNode(Graph, node)
       IN  /\ nodes' = g.nodes
           /\ replaced' = g.replaced
           /\ result' = [op |-> "addNode", status |-> g.status,
                         args |-> <<node>>]
    /\ ops' = ops + 1
    /\ UNCHANGED <<edges, edgeRefs, peers, kvars, dvars>>

GetNode(label) ==
    /\ ops < MaxOps
    /\ result' = [op |-> "getNode", status |-> getNode(nodes, label).status,
                  args |-> <<label>>]
    /\ ops' = ops + 1
    /\ UNCHANGED <<nodes, edges, edgeRefs, peers, replaced, kvars, dvars>>

ConnectNodes(a, b, d) ==
    /\ ops < MaxOps
    /\ LET g == connectNodes(Graph, a, b, d)
       IN  /\ nodes' = g.nodes
           /\ edges' = g.edges
           /\ edgeRefs' = g.edgeRefs
           /\ peers' = g.peers
           /\ result' = [op |-> "connectNodes", status |-> g.status,
                         args |-> <<a, b, d>>]
    /\ ops' = ops + 1
    /\ UNCHANGED <<replaced, kvars, dvars>>

Next ==
    \/ \E node \in {Inst(l, i) : l \in BuildLabels, i \in 1 .. MaxInst}
                      \cup {NotANode} : AddNode(node)
    \/ \E label \in BuildLabels : GetNode(label)
    \/ \E a \in BuildLabels, b \in BuildLabels, d \in BOOLEAN :
          ConnectNodes(a, b, d)

Spec == Init /\ [][Next]_vars

(* ------------------- properties of the construction -------------------- *)

\* The nodes an edge holds in start or end.
Endpoints == {edges[i].start : i \in DOMAIN edges}
                 \cup {edges[i].end : i \in DOMAIN edges}

\* C1: the edge sequence holds at most one edge with a given (start
\* instance, end instance, is_directed) triple, so that a connectNodes call
\* repeating the arguments of an earlier one appends nothing.
NoDuplicateEdge ==
    \A i \in DOMAIN edges, j \in DOMAIN edges :
        (/\ edges[i].start = edges[j].start
         /\ edges[i].end = edges[j].end
         /\ edges[i].is_directed = edges[j].is_directed) => i = j

\* C3, as stated: every edge's start and end are values the label-to-node
\* mapping holds now.
EndpointsInMap == Endpoints \subseteq Range(nodes)

\* C3, amended: every edge's start and end are Node instances the mapping
\* held when the edge was made; each is still a value of the mapping or
\* was replaced by a later addNode of its label, and its label is still a
\* key of the mapping.
EndpointsWereInMap ==
    \A n \in Endpoints :
        /\ n \in Range(nodes) \cup replaced
        /\ mapGet(nodes, labelOf(n)) # undefined

\* An edge holds a node that addNode has replaced in the mapping.
OrphanedEdge ==
    \E n \in Endpoints :
        /\ n \notin Range(nodes)
        /\ n \in replaced
        /\ result.op = "addNode"

\* C4: for every Node instance n the members of n.peers are exactly the
\* ends of the edges starting at n and the starts of the undirected edges
\* ending at n.
PeersAreEdgeNeighbours ==
    \A n \in Instances :
        Range(peers[n]) =
            {edges[i].end : i \in {j \in DOMAIN edges : edges[j].start = n}}
            \cup {edges[i].start :
                     i \in {j \in DOMAIN edges :
                              edges[j].end = n /\ ~edges[j].is_directed}}

\* A directed edge between two nodes has put its end among the peers of
\* its start and not its start among the peers of its end.
DirectedEdgeLinked ==
    \E i \in DOMAIN edges :
        /\ edges[i].is_directed
        /\ edges[i].start # edges[i].end
        /\ edges[i].end \in Range(peers[edges[i].start])
        /\ edges[i].start \notin Range(peers[edges[i].end])

\* C5: getNode of a label that is no key of the mapping ends in NotFound,
\* and connectNodes with either label missing ends in NotFound and leaves
\* the mapping, the edge sequence and every peers list as they were.
NotFoundLeavesGraph ==
    [][/\ \A label \in BuildLabels :
             (GetNode(label) /\ mapGet(nodes, label) = undefined)
                 => result'.status = "NotFound"
       /\ \A a \in BuildLabels, b \in BuildLabels, d \in BOOLEAN :
             (/\ ConnectNodes(a, b, d)
              /\ mapGet(nodes, a) = undefined \/ mapGet(nodes, b) = undefined)
                 => /\ result'.status = "NotFound"
                    /\ UNCHANGED <<nodes, edges, peers>>]_vars

\* connectNodes has failed on its second label, the first being a node of
\* a graph that has an edge.
SecondLabelNotFound ==
    /\ result.op = "connectNodes"
    /\ result.status = "NotFound"
    /\ mapGet(nodes, result.args[1]) # undefined
    /\ mapGet(nodes, result.args[2]) = undefined
    /\ edges # << >>

(* The graphs the layout is run on, each built by the calls shown. *)

NodeA1 == Inst("A", 1)

NodeA2 == Inst("A", 2)

NodeB1 == Inst("B", 1)

NodeC1 == Inst("C", 1)

\* One isolated node.
Single == addNode(EmptyGraph, NodeA1)

\* A - B undirected, and a self-loop on A.
Pair ==
    connectNodes(
        connectNodes(addNode(addNode(EmptyGraph, NodeA1), NodeB1), "A", "B", FALSE),
        "A", "A", FALSE)

\* A - B undirected, B -> C directed.
Triangle ==
    connectNodes(
        connectNodes(addNode(addNode(addNode(EmptyGraph, NodeA1), NodeB1), NodeC1),
                     "A", "B", FALSE),
        "B", "C", TRUE)

\* A - B undirected, then label A added again with another Node.
Orphaned ==
    addNode(connectNodes(addNode(addNode(EmptyGraph, NodeA1), NodeB1),
                         "A", "B", FALSE), NodeA2)

SimGraphs == <<Single, Pair, Triangle, Orphaned>>

InitSim ==
    /\ \E i \in DOMAIN SimGraphs : IsGraph(SimGraphs[i])
    /\ result = [op |-> "new", status |-> "ok", args |-> << >>]
    /\ ops = 0
    /\ canvas \in Sizes
    /\ InitKin
    /\ InitLoop

\* A direct call of Graph.init.
GraphInit(r) ==
    /\ calls < MaxCalls
    /\ pos' = init(pos, nodes, r, canvas.w, canvas.h)
    /\ trace' = [op |-> "init"]
    /\ calls' = calls + 1
    /\ UNCHANGED <<vel, acel, canvas, gvars, dvars>>

\* What a simulate call leaves in trace.
Traced(r, dt) ==
    [op |-> "simulate", dt |-> dt, threw |-> r.threw, pos0 |-> pos,
     vel0 |-> vel,
     edgeSteps |-> [n \in Instances |->
                      [i \in 1 .. Len(r.edgeSteps) |-> r.edgeSteps[i][n]]],
     inner |-> r.inner, clamped |-> r.clamped]

\* A direct call of Graph.simulate.
Simulate(dt) ==
    /\ calls < MaxCalls
    /\ LET r == simulate(Kin, nodes, edges, canvas.w, canvas.h, dt)
       IN  /\ pos' = r.pos
           /\ vel' = r.vel
           /\ acel' = r.acel
           /\ trace' = Traced(r, dt)
    /\ calls' = calls + 1
    /\ UNCHANGED <<canvas, gvars, dvars>>

NextSim ==
    \/ \E r \in [Range(nodes) -> rand] : GraphInit(r)
    \/ \E dt \in DtVals : Simulate(dt)

SpecSim == InitSim /\ [][NextSim]_vars

\* Graph.display: init, two draws, and the first frame is requested.
Display(r) ==
    /\ log = << >>
    /\ pos' = init(pos, nodes, r, canvas.w, canvas.h)
    /\ trace' = [op |-> "init"]
    /\ log' = display
    /\ pending' = TRUE
    /\ prev' = 0
    /\ UNCHANGED <<vel, acel, canvas, calls, frames, gvars>>

\* The browser runs the registered callback at time t.
Frame(t) ==
    /\ pending
    /\ frames < MaxFrames
    /\ LET f == step(Kin, nodes, edges, canvas.w, canvas.h, t, prev)
       IN  /\ pos' = f.sim.pos
           /\ vel' = f.sim.vel
           /\ acel' = f.sim.acel
           /\ trace' = Traced(f.sim, f.dt)
           /\ log' = log \o f.made
           /\ pending' = (f.made[Len(f.made)] = "requestAnimationFrame")
    /\ prev' = t
    /\ frames' = frames + 1
    /\ UNCHANGED <<canvas, calls, gvars>>

NextDisplay ==
    \/ \E r \in [Range(nodes) -> rand] : Display(r)
    \/ \E d \in Deltas : Frame(prev + d)

SpecDisplay == InitSim /\ [][NextDisplay]_vars

(* ---------------------- properties of the layout ----------------------- *)

\* The last call was a simulate call.
Simulated == trace.op = "simulate"

\* The nodes of the mapping were at pairwise distinct positions when the
\* last simulate call began.
DistinctPositions ==
    \A i \in DOMAIN nodes, j \in DOMAIN nodes :
        i # j => trace.pos0[nodes[i]] # trace.pos0[nodes[j]]

\* n.acel as the edge loop of the last simulate call left it.
afterEdges(n) == trace.edgeSteps[n][Len(edges) + 1]

\* The nodes the inner pair loop of subject n visits, in Map order.
others(n) == SelectSeq(nodes, LAMBDA p : p # n)

\* The term the inner loop of subject n subtracts for the other node p.
repulsionOf(n, p) ==
    repulsion(sub(trace.pos0[p], trace.pos0[n]),
              mag(sub(trace.pos0[p], trace.pos0[n])))

RECURSIVE lessRepulsions(_, _, _)
\* v less the repulsion terms of the first k other nodes of subject n.
lessRepulsions(v, n, k) ==
    IF k = 0 THEN v
    ELSE sub(lessRepulsions(v, n, k - 1), repulsionOf(n, others(n)[k]))

RECURSIVE sum(_, _, _)
\* The sum of a[ns[1]], ..., a[ns[i]].
sum(a, ns, i) == IF i = 0 THEN Zero ELSE add(sum(a, ns, i - 1), a[ns[i]])

\* C2: a simulate call on a graph holding two distinct nodes at the same
\* position runs through all its phases without throwing.
CoincidentNodesDoNotThrow ==
    (Simulated /\ ~DistinctPositions) => ~trace.threw

\* C7, as stated: with three or more nodes at pairwise distinct positions,
\* what a node carries out of its inner loop is its acceleration after the
\* edge loop less the repulsion of the last other node alone (capped).
RepulsionOverwritten ==
    (Simulated /\ Len(nodes) >= 3 /\ DistinctPositions) =>
        \A n \in Range(nodes) :
            trace.inner[n][Len(trace.inner[n])] =
                clamp(sub(afterEdges(n),
                          repulsionOf(n, others(n)[Len(others(n))])))

\* C7, amended: every iteration of the inner loop subtracts the repulsion
\* of its other node from what the iteration before left in n.acel (the
\* edge loop, for the first) and caps the result; where no iteration caps,
\* the node carries out its acceleration after the edge loop less the
\* repulsion of every other node.
RepulsionAccumulated ==
    Simulated =>
        \A n \in Range(nodes) :
            /\ \A k \in DOMAIN trace.inner[n] :
                  trace.inner[n][k] =
                      clamp(sub(IF k = 1 THEN afterEdges(n)
                                ELSE trace.inner[n][k - 1],
                                repulsionOf(n, others(n)[k])))
            /\ (~trace.threw /\ ~trace.clamped[n] /\ Len(nodes) >= 2) =>
                  trace.inner[n][Len(trace.inner[n])] =
                      lessRepulsions(afterEdges(n), n, Len(others(n)))

\* Three nodes at pairwise distinct positions, and a subject whose inner
\* loop ran twice without capping and left something else than its
\* acceleration after the edge loop less the last repulsion.
TwoRepulsionsCarried ==
    /\ Simulated
    /\ ~trace.threw
    /\ Len(nodes) >= 3
    /\ DistinctPositions
    /\ \E n \in Range(nodes) :
          /\ Len(trace.inner[n]) = 2
          /\ ~trace.clamped[n]
          /\ afterEdges(n) # Zero
          /\ trace.inner[n][2] #
                 sub(afterEdges(n), repulsionOf(n, others(n)[2]))

\* C8: a simulate call that completes leaves every node of the mapping at
\* old pos + old vel * dt and with velocity 0.95 * (old vel + acel * dt);
\* from zero velocity, and with dt = 0, no position changes, and with
\* dt = 0 every velocity is multiplied by 0.95.
PositionBeforeVelocity ==
    (Simulated /\ ~trace.threw) =>
        \A n \in Range(nodes) :
            /\ pos[n] = add(trace.pos0[n], mulS(trace.vel0[n], trace.dt))
            /\ vel[n] = mulS(add(trace.vel0[n], mulS(acel[n], trace.dt)),
                             (95 * Scale) \div 100)
            /\ trace.vel0[n] = Zero => pos[n] = trace.pos0[n]
            /\ trace.dt = 0 =>
                  /\ pos[n] = trace.pos0[n]
                  /\ vel[n] = mulS(trace.vel0[n], (95 * Scale) \div 100)

\* A step with dt > 0 has moved a node that had a velocity and an
\* acceleration.
MovedByOldVelocity ==
    /\ Simulated
    /\ ~trace.threw
    /\ trace.dt > 0
    /\ \E n \in Range(nodes) :
          /\ trace.vel0[n] # Zero
          /\ acel[n] # Zero
          /\ pos[n] # trace.pos0[n]
          /\ vel[n] # trace.vel0[n]

\* What the edge loop did for edge i, start n and end q at dist_vec, force
\* being what the claim says the spring adds.
edgeStepRight(i, n, q, dist_vec, force) ==
    IF mag(dist_vec) <= spring_length
    THEN \A x \in Instances :
            trace.edgeSteps[x][i + 1] = trace.edgeSteps[x][i]
    ELSE /\ trace.edgeSteps[n][i + 1] = sub(trace.edgeSteps[n][i], force)
         /\ trace.edgeSteps[q][i + 1] = add(trace.edgeSteps[q][i], force)
         /\ \A x \in Instances \ {n, q} :
               trace.edgeSteps[x][i + 1] = trace.edgeSteps[x][i]
         \* each contribution points toward the other endpoint
         /\ mul(sub(Zero, force), sub(Zero, dist_vec)).x
               + mul(sub(Zero, force), sub(Zero, dist_vec)).y > 0
         /\ mul(force, dist_vec).x + mul(force, dist_vec).y > 0
         \* and has the magnitude spring_constant * ln(dist - 29), to the
         \* two digits dir is kept with
         /\ Abs(mag(force) - springForce(mag(dist_vec))) * 50
               <= springForce(mag(dist_vec))

\* Every iteration of the edge loop of the last simulate call did what
\* the claim says.
EdgeStepsRight ==
    \A i \in DOMAIN edges :
        edgeStepRight(i, edges[i].start, edges[i].end,
                      sub(trace.pos0[edges[i].start],
                          trace.pos0[edges[i].end]),
                      mulS(norm(sub(trace.pos0[edges[i].start],
                                    trace.pos0[edges[i].end])),
                           springForce(mag(sub(trace.pos0[edges[i].start],
                                               trace.pos0[edges[i].end])))))

\* The accelerations the edge loop left sum to zero, over the nodes of
\* the mapping or over every Node object there is.
SumsToZero ==
    \/ sum([n \in Instances |-> afterEdges(n)], nodes, Len(nodes)) = Zero
    \/ sum([n \in Instances |-> afterEdges(n)],
           [n \in Instances |-> n], Cardinality(Instances)) = Zero

\* C9, as stated: an edge no longer than spring_length changes no
\* acceleration, a longer one adds opposite contributions of magnitude
\* spring_constant * ln(dist - (spring_length - 1)) to its start and its
\* end, each toward the other endpoint, and after the edge loop the
\* accelerations of all nodes sum to zero.
SpringsCancelAlways == Simulated => (EdgeStepsRight /\ SumsToZero)

\* C9, amended: the same for every edge, the accelerations summing to
\* zero after the edge loop when every edge endpoint is a value of the
\* mapping.
SpringsCancel ==
    Simulated =>
        /\ EdgeStepsRight
        /\ Endpoints \subseteq Range(nodes) =>
              sum([n \in Instances |-> afterEdges(n)], nodes, Len(nodes))
                  = Zero

\* The edge loop has run over a self-loop, which changed nothing, and over
\* an edge longer than spring_length, which pulled both its endpoints.
SpringPulledBoth ==
    /\ Simulated
    /\ \E i \in DOMAIN edges : edges[i].start = edges[i].end
    /\ \E i \in DOMAIN edges :
          /\ mag(sub(trace.pos0[edges[i].start], trace.pos0[edges[i].end]))
                > spring_length
          /\ trace.edgeSteps[edges[i].start][i + 1]
                # trace.edgeSteps[edges[i].start][i]
          /\ afterEdges(edges[i].start) # Zero
          /\ afterEdges(edges[i].end) # Zero

\* C10: after every iteration of the inner pair loop, and so before the
\* centering force is added, the magnitude of the subject's acceleration
\* is at most max_repulsive_force.
RepulsionCapped ==
    (Simulated /\ Len(nodes) >= 2 /\ DistinctPositions) =>
        \A n \in Range(nodes) :
            \A k \in DOMAIN trace.inner[n] :
                mag(trace.inner[n][k]) <= max_repulsive_force

\* The cap has acted on a node that carried a spring contribution into
\* its inner loop.
CapActedOnSpring ==
    /\ Simulated
    /\ ~trace.threw
    /\ Len(nodes) >= 2
    /\ DistinctPositions
    /\ \E n \in Range(nodes) :
          /\ trace.clamped[n]
          /\ afterEdges(n) # Zero
          /\ trace.inner[n] # << >>

(* --------------------- properties of the frame loop -------------------- *)

\* C6: init is called once, before the first simulate; a frame's draw
\* follows its simulate, the next frame is requested after that draw, and
\* a simulate begins only when the frame before it has asked for it.
FramesInOrder ==
    /\ \A i \in DOMAIN log : log[i] = "init" <=> i = 1
    /\ \A i \in DOMAIN log :
          log[i] \in {"simulate", "simulate:TypeError"} =>
              i > 1 /\ log[i - 1] = "requestAnimationFrame"
    /\ \A i \in DOMAIN log :
          (log[i] = "draw" /\ i > 3) => log[i - 1] = "simulate"
    /\ \A i \in DOMAIN log :
          (log[i] = "requestAnimationFrame" /\ i > 4) =>
              log[i - 1] = "draw" /\ log[i - 2] = "simulate"
    /\ pending <=> (log # << >> /\ log[Len(log)] = "requestAnimationFrame")

\* Two frames have run and the third is asked for.
TwoFramesDone ==
    /\ frames = 2
    /\ Len(log) = 10
    /\ log[5] = "simulate"
    /\ log[8] = "simulate"
    /\ pending

====
